---- MODULE Spec2Model ----
(***************************************************************************)
(* Model of the voxel simulation engine of concept_stack                   *)
(* (src/services/VoxelEngine.ts), of the callbacks App.tsx hands to it and *)
(* of the App's handlers for lessons, step clicks, export and import.      *)
(*                                                                         *)
(* Numbers: the engine computes in floating point.  The model keeps every  *)
(* length, velocity and angle as an integer count of 1/Scale units and     *)
(* rounds products toward zero (Mul).  Voxel indices are the 0-based array *)
(* indices of the source; voxels[i + 1] is the source's this.voxels[i].    *)
(***************************************************************************)
EXTENDS Integers, Sequences, FiniteSets, TLC

\* ------------------------------------------------------------------ bounds
MaxVoxels == 2      \* longest input handed to loadInitialModel
MaxTicks  == 1      \* animation frames explored in one behaviour
MaxCalls  == 3      \* commands (load, dismantle, rebuild, reject) explored
MaxTimers == 2      \* setTimeout callbacks pending at the same time
MaxLiveCalls == 2   \* commands explored where liveness is checked (LiveSpec)
MaxRunTicks == 40   \* frames of one dismantle-and-rebuild run (RunSpec)
MaxSteps == 2       \* largest stepCount of getStepCentroids; most steps of a lesson
MaxImportCalls == 3 \* loads, dismantles and imports explored in ImportSpec
MaxGameCalls == 5   \* loads, dismantles and clicks explored in GameSpec
ScenarioVoxels == 10       \* voxels of the settle-and-rebuild scenario (ScenarioSpec)
ScenarioRestTicks == 100   \* frames the scenario leaves the rubble alone
ScenarioFlightTicks == 50  \* frames the scenario runs after rebuildLayer

\* --------------------------------------------------------------- constants
Scale == 100        \* model units per world unit
FLOOR_Y == -12      \* CONFIG.FLOOR_Y (utils/voxelConstants), world units

FloorLevel == FLOOR_Y * Scale + 50      \* CONFIG.FLOOR_Y + 0.5

\* AppState (types.ts); REBUILDING is declared but never assigned.
STABLE == "STABLE"
DISMANTLING == "DISMANTLING"
INTERACTIVE_REBUILD == "INTERACTIVE_REBUILD"
REJECTING == "REJECTING"
AppState == {STABLE, DISMANTLING, "REBUILDING", INTERACTIVE_REBUILD, REJECTING}

VARIABLES
    voxels,                 \* this.voxels: sequence of SimulationVoxel
    rebuildTargets,         \* this.rebuildTargets
    activeRebuildIndices,   \* this.activeRebuildIndices (0-based indices)
    rejectingIndices,       \* this.rejectingIndices (0-based indices)
    state,                  \* this.state
    timers,                 \* pending setTimeout callbacks of rejectLayer, oldest first
    appState,               \* App's appState, written by onStateChange
    voxelCount,             \* App's voxelCount, written by onCountChange
    lastOp,                 \* the operation that ran last, its argument and result
    branches,               \* per voxel, the physics branches the last tick ran on it
    nTicks,                 \* frames so far
    nCalls,                 \* commands so far
    stepCentroids,          \* App's stepCentroids: the last getStepCentroids result
    jsonData,               \* App's jsonData: the last getJsonData result
    lessonSteps,            \* App's lessonSteps, as the number of steps
    currentStepIndex,       \* App's currentStepIndex
    completedSteps,         \* App's completedSteps
    lastClick,              \* the last handleStepClick: its argument and result
    customBuilds,           \* App's customBuilds, as the set of their step counts
    rendered                \* currentStepIndex and completedSteps as last rendered

vars == <<voxels, rebuildTargets, activeRebuildIndices, rejectingIndices, state,
          timers, appState, voxelCount, lastOp, branches, nTicks, nCalls,
          stepCentroids, jsonData, lessonSteps, currentStepIndex, completedSteps,
          lastClick, customBuilds, rendered>>

\* The App's game state, which no method of the engine touches.
gameVars == <<lessonSteps, currentStepIndex, completedSteps, lastClick, customBuilds,
              rendered>>

\* ------------------------------------------------------------ input domains
\* VoxelData handed to loadInitialModel, coordinates in 1/Scale;
\* hasStep = FALSE is an absent stepIndex.
VoxelInputs ==
    << [x |-> 0, y |-> -11 * Scale, z |-> 0, color |-> 10, hasStep |-> TRUE,
        stepIndex |-> 0],
       [x |-> 1 * Scale, y |-> -10 * Scale, z |-> 0, color |-> 20, hasStep |-> TRUE,
        stepIndex |-> 1],
       [x |-> 0, y |-> -10 * Scale, z |-> 1 * Scale, color |-> 30, hasStep |-> FALSE,
        stepIndex |-> 0] >>

\* The inputs of at most MaxVoxels voxels; the engine treats every voxel alike,
\* so one order of each choice of voxels is enough.
Models ==
    { [ k \in 1..n |-> VoxelInputs[f[k]] ] :
        n \in 0..MaxVoxels,
        f \in { g \in [1..MaxVoxels -> 1..Len(VoxelInputs)] :
                  \A j \in 1..(MaxVoxels - 1) : g[j] <= g[j + 1] } }

\* Outcomes of the Math.random() lightness offset of createVoxels.
Jitters == {0}

\* Draws without the "+ 0.5" of the upward pop.
Impulses_NoPop ==
    { [vx |-> 0,   vy |-> 0,  vz |-> 0,  rvx |-> 0,  rvy |-> 0, rvz |-> 0],
      [vx |-> -60, vy |-> 70, vz |-> 30, rvx |-> 10, rvy |-> -5, rvz |-> 0] }

\* Outcomes of the six Math.random() draws of dismantle for one voxel:
\* vx, vz in [-1, 1), vy in [0.5, 2), rvx, rvy, rvz in [-0.2, 0.2).
Impulses ==
    { [vx |-> 0,   vy |-> 50,  vz |-> 0,  rvx |-> 0,  rvy |-> 0, rvz |-> 0],
      [vx |-> -60, vy |-> 120, vz |-> 30, rvx |-> 10, rvy |-> -5, rvz |-> 0] }

\* Outcomes of the two Math.random() draws of rejectLayer: vx, vz in [-0.25, 0.25).
Jiggles == { [vx |-> 0, vz |-> 0], [vx |-> -25, vz |-> 10] }

\* Arguments tried for rebuildLayer / rejectLayer.
StepArgs == -1..1

\* ---------------------------------------------------------------- helpers
Abs(a) == IF a < 0 THEN -a ELSE a

\* a * (num / den), rounded toward zero.
Mul(a, num, den) ==
    LET p == a * num
    IN IF p >= 0 THEN p \div den ELSE -((-p) \div den)

Indices == 0..(Len(voxels) - 1)

\* The test without the comparison of the tag.
Matching_All(stepIndex) == { i \in 0..(Len(voxels) - 1) : TRUE }

\* The 0-based indices of the voxels whose stepIndex equals the argument.
Matching(stepIndex) == { i \in Indices : voxels[i + 1].stepIndex = stepIndex }

NoOp == [op |-> "init", arg |-> 0, ret |-> FALSE, again |-> FALSE,
         emits |-> <<>>, count |-> -1]

\* ------------------------------------------------------------------- Init
Init ==
    /\ voxels = <<>>
    /\ rebuildTargets = <<>>
    /\ activeRebuildIndices = {}
    /\ rejectingIndices = {}
    /\ state = STABLE
    /\ timers = <<>>
    /\ appState = STABLE
    /\ voxelCount = 0
    /\ lastOp = NoOp
    /\ branches = <<>>
    /\ nTicks = 0
    /\ nCalls = 0
    /\ stepCentroids = <<>>
    /\ jsonData = <<>>
    /\ lessonSteps = 0
    /\ currentStepIndex = 0
    /\ completedSteps = {}
    /\ lastClick = [index |-> -1, ret |-> FALSE]
    /\ customBuilds = {}
    /\ rendered = [currentStepIndex |-> 0, completedSteps |-> {}]

\* ------------------------------------------------------------ createVoxels
\* createVoxels with the missing stepIndex defaulting to 0.
createVoxels_TagZero(data, jit) ==
    [ k \in 1..Len(data) |->
        [ id |-> k - 1,
          x |-> data[k].x, y |-> data[k].y, z |-> data[k].z,
          originalX |-> data[k].x,
          originalY |-> data[k].y,
          originalZ |-> data[k].z,
          color |-> data[k].color + jit[k],
          stepIndex |-> IF data[k].hasStep THEN data[k].stepIndex ELSE 0,
          vx |-> 0, vy |-> 0, vz |-> 0, rx |-> 0, ry |-> 0, rz |-> 0,
          rvx |-> 0, rvy |-> 0, rvz |-> 0 ] ]

createVoxels(data, jit) ==
    [ k \in 1..Len(data) |->
        [ id |-> k - 1,
          x |-> data[k].x, y |-> data[k].y, z |-> data[k].z,
          originalX |-> data[k].x,
          originalY |-> data[k].y,
          originalZ |-> data[k].z,
          color |-> data[k].color + jit[k],
          stepIndex |-> IF data[k].hasStep THEN data[k].stepIndex ELSE -1,
          vx |-> 0, vy |-> 0, vz |-> 0, rx |-> 0, ry |-> 0, rz |-> 0,
          rvx |-> 0, rvy |-> 0, rvz |-> 0 ] ]

\* Bookkeeping on the pending callbacks: a later command that takes the mode
\* away from REJECTING (load, dismantle, rebuildLayer) marks them stale, a later
\* load marks them loaded.
MarkTimers(isLoad) ==
    [ k \in 1..Len(timers) |->
        [ timers[k] EXCEPT !.stale = TRUE, !.loaded = timers[k].loaded \/ isLoad ] ]

\* loadInitialModel without this.rebuildTargets = [].
loadInitialModel_KeepTargets(data, jit) ==
    /\ UNCHANGED <<stepCentroids, jsonData>>
    /\ voxels' = createVoxels(data, jit)
    /\ voxelCount' = Len(voxels')
    /\ state' = STABLE
    /\ appState' = STABLE
    /\ activeRebuildIndices' = {}
    /\ rejectingIndices' = {}
    /\ UNCHANGED rebuildTargets
    /\ timers' = MarkTimers(TRUE)
    /\ lastOp' = [op |-> "load", arg |-> data, ret |-> FALSE, again |-> FALSE,
                  emits |-> <<STABLE>>, count |-> Len(voxels')]
    /\ branches' = <<>>
    /\ nCalls' = nCalls + 1
    /\ UNCHANGED nTicks

\* -------------------------------------------------------- loadInitialModel
\* loadInitialModel without this.rejectingIndices.clear().
loadInitialModel_KeepRejecting(data, jit) ==
    /\ UNCHANGED <<stepCentroids, jsonData>>
    /\ voxels' = createVoxels(data, jit)
    /\ voxelCount' = Len(voxels')
    /\ state' = STABLE
    /\ appState' = STABLE
    /\ activeRebuildIndices' = {}
    /\ rebuildTargets' = <<>>
    /\ timers' = MarkTimers(TRUE)
    /\ lastOp' = [op |-> "load", arg |-> data, ret |-> FALSE, again |-> FALSE,
                  emits |-> <<STABLE>>, count |-> Len(voxels')]
    /\ branches' = <<>>
    /\ nCalls' = nCalls + 1
    /\ UNCHANGED <<nTicks, rejectingIndices>>

loadInitialModel(data, jit) ==
    /\ UNCHANGED <<stepCentroids, jsonData>>
    /\ voxels' = createVoxels(data, jit)
    /\ voxelCount' = Len(voxels')
    /\ state' = STABLE
    /\ appState' = STABLE
    /\ activeRebuildIndices' = {}
    /\ rejectingIndices' = {}
    /\ rebuildTargets' = <<>>
    /\ timers' = MarkTimers(TRUE)
    /\ lastOp' = [op |-> "load", arg |-> data, ret |-> FALSE, again |-> FALSE,
                  emits |-> <<STABLE>>, count |-> Len(voxels')]
    /\ branches' = <<>>
    /\ nCalls' = nCalls + 1
    /\ UNCHANGED nTicks

Load ==
    /\ nCalls < MaxCalls
    /\ \E data \in Models : \E jit \in [1..Len(data) -> Jitters] :
          loadInitialModel(data, jit)
    /\ UNCHANGED gameVars

\* ---------------------------------------------------------------- dismantle
\* A guard that lets a call through once the pieces fly back.
DismantleRefused_OnlyInRubble == state = DISMANTLING

\* if (this.state !== AppState.STABLE) return;
DismantleRefused == state # STABLE

\* imp[k] holds the random draws for voxels[k].
dismantle(imp) ==
    /\ UNCHANGED <<stepCentroids, jsonData>>
    /\ nCalls' = nCalls + 1
    /\ branches' = <<>>
    /\ UNCHANGED <<nTicks, voxelCount>>
    /\ IF DismantleRefused
         THEN /\ lastOp' = [op |-> "dismantle", arg |-> 0, ret |-> FALSE, again |-> FALSE,
                            emits |-> <<>>, count |-> -1]
              /\ UNCHANGED <<voxels, rebuildTargets, activeRebuildIndices,
                             rejectingIndices, state, timers, appState>>
         ELSE /\ state' = DISMANTLING
              /\ appState' = DISMANTLING
              /\ activeRebuildIndices' = {}
              /\ rejectingIndices' = {}
              /\ rebuildTargets' =
                    [ k \in 1..Len(voxels) |->
                        [ x |-> voxels[k].originalX, y |-> voxels[k].originalY,
                          z |-> voxels[k].originalZ, delay |-> 0, isRubble |-> FALSE ] ]
              /\ voxels' =
                    [ k \in 1..Len(voxels) |->
                        [ voxels[k] EXCEPT !.vx = imp[k].vx, !.vy = imp[k].vy,
                                           !.vz = imp[k].vz, !.rvx = imp[k].rvx,
                                           !.rvy = imp[k].rvy, !.rvz = imp[k].rvz ] ]
              /\ timers' = MarkTimers(FALSE)
              /\ lastOp' = [op |-> "dismantle", arg |-> 0, ret |-> TRUE, again |-> FALSE,
                            emits |-> <<DISMANTLING>>, count |-> -1]

Dismantle ==
    /\ nCalls < MaxCalls
    /\ \E imp \in [1..Len(voxels) -> Impulses] : dismantle(imp)
    /\ UNCHANGED gameVars

\* -------------------------------------------------------------- rebuildLayer
\* The forEach of rebuildLayer from index i on; acc = [active, rejecting, found].
RECURSIVE RebuildScan(_, _, _)
RebuildScan(i, stepIndex, acc) ==
    IF i >= Len(voxels) THEN acc
    ELSE IF voxels[i + 1].stepIndex = stepIndex
         THEN RebuildScan(i + 1, stepIndex,
                          [ active |-> acc.active \cup {i},
                            rejecting |-> acc.rejecting \ {i},
                            found |-> acc.found + 1 ])
         ELSE RebuildScan(i + 1, stepIndex, acc)

\* The loop with the delete of line 192 left out.
RebuildLoop_KeepRejecting(stepIndex) ==
    [ RebuildScan(0, stepIndex,
                  [ active |-> activeRebuildIndices,
                    rejecting |-> rejectingIndices, found |-> 0 ])
        EXCEPT !.rejecting = rejectingIndices ]

\* The loop with found++ moved out of the if.
RebuildLoop_CountAll(stepIndex) ==
    [ RebuildScan(0, stepIndex,
                  [ active |-> activeRebuildIndices,
                    rejecting |-> rejectingIndices, found |-> 0 ])
        EXCEPT !.found = Len(voxels) ]

\* The loop toggling membership instead of adding.
RebuildLoop_Toggle(stepIndex) ==
    [ RebuildScan(0, stepIndex,
                  [ active |-> activeRebuildIndices,
                    rejecting |-> rejectingIndices, found |-> 0 ])
        EXCEPT !.active = (activeRebuildIndices \ Matching(stepIndex))
                            \cup (Matching(stepIndex) \ activeRebuildIndices) ]

\* The whole forEach of rebuildLayer, started on the engine's sets.
RebuildLoop(stepIndex) ==
    RebuildScan(0, stepIndex,
                [ active |-> activeRebuildIndices,
                  rejecting |-> rejectingIndices, found |-> 0 ])

rebuildLayer(stepIndex) ==
    LET r == RebuildLoop(stepIndex)
    IN /\ UNCHANGED <<stepCentroids, jsonData>>
       /\ nCalls' = nCalls + 1
       /\ state' = INTERACTIVE_REBUILD
       /\ appState' = INTERACTIVE_REBUILD
       /\ activeRebuildIndices' = r.active
       /\ rejectingIndices' = r.rejecting
       /\ timers' = MarkTimers(FALSE)
       /\ lastOp' = [op |-> "rebuildLayer", arg |-> stepIndex, ret |-> r.found > 0,
                     again |-> (lastOp.op = "rebuildLayer" /\ lastOp.arg = stepIndex),
                     emits |-> <<INTERACTIVE_REBUILD>>, count |-> -1]
       /\ branches' = <<>>
       /\ UNCHANGED <<voxels, rebuildTargets, voxelCount, nTicks>>

RebuildLayer ==
    /\ nCalls < MaxCalls
    /\ \E stepIndex \in StepArgs : rebuildLayer(stepIndex)
    /\ UNCHANGED gameVars

\* --------------------------------------------------------------- rejectLayer
\* rejectLayer without the forced change of mode.
rejectLayer_KeepMode(stepIndex, jig) ==
    /\ UNCHANGED <<stepCentroids, jsonData>>
    /\ Len(timers) < MaxTimers
    /\ nCalls' = nCalls + 1
    /\ UNCHANGED <<state, appState>>
    /\ rejectingIndices' = rejectingIndices \cup Matching(stepIndex)
    /\ voxels' =
          [ k \in 1..Len(voxels) |->
              IF voxels[k].stepIndex = stepIndex
                THEN [ voxels[k] EXCEPT !.vy = 50, !.vx = jig[k - 1].vx,
                                        !.vz = jig[k - 1].vz ]
                ELSE voxels[k] ]
    /\ timers' = Append(timers,
                        [ stepIndex |-> stepIndex, stale |-> FALSE, loaded |-> FALSE ])
    /\ lastOp' = [op |-> "rejectLayer", arg |-> stepIndex, ret |-> FALSE, again |-> FALSE,
                  emits |-> <<>>, count |-> -1]
    /\ branches' = <<>>
    /\ UNCHANGED <<rebuildTargets, activeRebuildIndices, voxelCount, nTicks>>

\* rejectLayer that takes the rejected voxels out of the active-flight set.
rejectLayer_Grounds(stepIndex, jig) ==
    /\ UNCHANGED <<stepCentroids, jsonData>>
    /\ Len(timers) < MaxTimers
    /\ nCalls' = nCalls + 1
    /\ state' = REJECTING
    /\ appState' = REJECTING
    /\ rejectingIndices' = rejectingIndices \cup Matching(stepIndex)
    /\ activeRebuildIndices' = activeRebuildIndices \ Matching(stepIndex)
    /\ voxels' =
          [ k \in 1..Len(voxels) |->
              IF voxels[k].stepIndex = stepIndex
                THEN [ voxels[k] EXCEPT !.vy = 50, !.vx = jig[k - 1].vx,
                                        !.vz = jig[k - 1].vz ]
                ELSE voxels[k] ]
    /\ timers' = Append(timers,
                        [ stepIndex |-> stepIndex, stale |-> FALSE, loaded |-> FALSE ])
    /\ lastOp' = [op |-> "rejectLayer", arg |-> stepIndex, ret |-> FALSE, again |-> FALSE,
                  emits |-> <<REJECTING>>, count |-> -1]
    /\ branches' = <<>>
    /\ UNCHANGED <<rebuildTargets, voxelCount, nTicks>>

\* jig[i] holds the random draws for the matching voxel of index i.
rejectLayer(stepIndex, jig) ==
    /\ UNCHANGED <<stepCentroids, jsonData>>
    /\ Len(timers) < MaxTimers
    /\ nCalls' = nCalls + 1
    /\ state' = REJECTING
    /\ appState' = REJECTING
    /\ rejectingIndices' = rejectingIndices \cup Matching(stepIndex)
    /\ voxels' =
          [ k \in 1..Len(voxels) |->
              IF voxels[k].stepIndex = stepIndex
                THEN [ voxels[k] EXCEPT !.vy = 50, !.vx = jig[k - 1].vx,
                                        !.vz = jig[k - 1].vz ]
                ELSE voxels[k] ]
    /\ timers' = Append(timers,
                        [ stepIndex |-> stepIndex, stale |-> FALSE, loaded |-> FALSE ])
    /\ lastOp' = [op |-> "rejectLayer", arg |-> stepIndex, ret |-> FALSE, again |-> FALSE,
                  emits |-> <<REJECTING>>, count |-> -1]
    /\ branches' = <<>>
    /\ UNCHANGED <<rebuildTargets, activeRebuildIndices, voxelCount, nTicks>>

RejectLayer ==
    /\ nCalls < MaxCalls
    /\ \E stepIndex \in StepArgs :
          \E jig \in [Matching(stepIndex) -> Jiggles] :
              rejectLayer(stepIndex, jig)
    /\ UNCHANGED gameVars

\* ----------------------------------------------- the setTimeout callback
\* The callback without its body: it fires and reverts nothing.
TimerFire_NoRevert ==
    /\ UNCHANGED <<stepCentroids, jsonData, gameVars>>
    /\ timers # <<>>
    /\ timers' = Tail(timers)
    /\ branches' = <<>>
    /\ lastOp' = [op |-> "timer", arg |-> Head(timers), ret |-> FALSE,
                  again |-> FALSE, emits |-> <<>>, count |-> -1]
    /\ UNCHANGED <<voxels, rebuildTargets, activeRebuildIndices, voxelCount,
                   nTicks, nCalls, state, appState, rejectingIndices>>

\* The callback without its test of the mode.
TimerFire_Unguarded ==
    /\ UNCHANGED <<stepCentroids, jsonData, gameVars>>
    /\ timers # <<>>
    /\ timers' = Tail(timers)
    /\ branches' = <<>>
    /\ state' = INTERACTIVE_REBUILD
    /\ appState' = INTERACTIVE_REBUILD
    /\ rejectingIndices' = {}
    /\ lastOp' = [op |-> "timer", arg |-> Head(timers), ret |-> TRUE,
                  again |-> FALSE, emits |-> <<INTERACTIVE_REBUILD>>, count |-> -1]
    /\ UNCHANGED <<voxels, rebuildTargets, activeRebuildIndices, voxelCount,
                   nTicks, nCalls>>

\* The callback reverting the mode without telling the App.
TimerFire_Silent ==
    /\ UNCHANGED <<stepCentroids, jsonData, gameVars>>
    /\ timers # <<>>
    /\ timers' = Tail(timers)
    /\ branches' = <<>>
    /\ UNCHANGED <<voxels, rebuildTargets, activeRebuildIndices, voxelCount,
                   nTicks, nCalls, appState>>
    /\ IF state = REJECTING
         THEN /\ state' = INTERACTIVE_REBUILD
              /\ rejectingIndices' = {}
              /\ lastOp' = [op |-> "timer", arg |-> Head(timers), ret |-> TRUE,
                            again |-> FALSE, emits |-> <<>>, count |-> -1]
         ELSE /\ lastOp' = [op |-> "timer", arg |-> Head(timers), ret |-> FALSE,
                            again |-> FALSE, emits |-> <<>>, count |-> -1]
              /\ UNCHANGED <<state, rejectingIndices>>

\* The 800 ms callbacks all wait the same time, so the oldest fires first.
TimerFire ==
    /\ UNCHANGED <<stepCentroids, jsonData, gameVars>>
    /\ timers # <<>>
    /\ timers' = Tail(timers)
    /\ branches' = <<>>
    /\ UNCHANGED <<voxels, rebuildTargets, activeRebuildIndices, voxelCount,
                   nTicks, nCalls>>
    /\ IF state = REJECTING
         THEN /\ state' = INTERACTIVE_REBUILD
              /\ appState' = INTERACTIVE_REBUILD
              /\ rejectingIndices' = {}
              /\ lastOp' = [op |-> "timer", arg |-> Head(timers), ret |-> TRUE,
                            again |-> FALSE, emits |-> <<INTERACTIVE_REBUILD>>,
                            count |-> -1]
         ELSE /\ lastOp' = [op |-> "timer", arg |-> Head(timers), ret |-> FALSE,
                            again |-> FALSE, emits |-> <<>>, count |-> -1]
              /\ UNCHANGED <<state, appState, rejectingIndices>>

\* ------------------------------------------------------------ updatePhysics
\* Rubble physics without the floor collision.
Rubble_NoFloor(v) ==
    LET vy1 == v.vy - 4
    IN [ v EXCEPT !.x = v.x + v.vx, !.y = v.y + vy1, !.z = v.z + v.vz,
                  !.rx = v.rx + v.rvx, !.ry = v.ry + v.rvy, !.rz = v.rz + v.rvz,
                  !.vx = Mul(v.vx, 98, 100), !.vz = Mul(v.vz, 98, 100),
                  !.vy = Mul(vy1, 99, 100) ]

\* Rubble physics without the snap of a small rebound to zero.
Rubble_NoSnap(v) ==
    LET vy1 == v.vy - 4
        y1  == v.y + vy1
        vx2 == Mul(v.vx, 98, 100)
        vz2 == Mul(v.vz, 98, 100)
        vy2 == Mul(vy1, 99, 100)
        moved == [ v EXCEPT !.x = v.x + v.vx, !.y = y1, !.z = v.z + v.vz,
                            !.rx = v.rx + v.rvx, !.ry = v.ry + v.rvy,
                            !.rz = v.rz + v.rvz,
                            !.vx = vx2, !.vz = vz2, !.vy = vy2 ]
    IN IF y1 < FloorLevel
         THEN [ moved EXCEPT !.y = FloorLevel,
                             !.vy = Mul(vy2, -50, 100),
                             !.vx = Mul(vx2, 80, 100), !.vz = Mul(vz2, 80, 100),
                             !.rvx = Mul(v.rvx, 80, 100), !.rvy = Mul(v.rvy, 80, 100),
                             !.rvz = Mul(v.rvz, 80, 100) ]
         ELSE moved

\* 1. Rubble physics on one voxel.
Rubble(v) ==
    LET vy1 == v.vy - 4
        y1  == v.y + vy1
        vx2 == Mul(v.vx, 98, 100)
        vz2 == Mul(v.vz, 98, 100)
        vy2 == Mul(vy1, 99, 100)
        vy3 == Mul(vy2, -50, 100)
        moved == [ v EXCEPT !.x = v.x + v.vx, !.y = y1, !.z = v.z + v.vz,
                            !.rx = v.rx + v.rvx, !.ry = v.ry + v.rvy,
                            !.rz = v.rz + v.rvz,
                            !.vx = vx2, !.vz = vz2, !.vy = vy2 ]
    IN IF y1 < FloorLevel
         THEN [ moved EXCEPT !.y = FloorLevel,
                             !.vy = IF Abs(vy3) < 10 THEN 0 ELSE vy3,
                             !.vx = Mul(vx2, 80, 100), !.vz = Mul(vz2, 80, 100),
                             !.rvx = Mul(v.rvx, 80, 100), !.rvy = Mul(v.rvy, 80, 100),
                             !.rvz = Mul(v.rvz, 80, 100) ]
         ELSE moved

\* The destination of voxel i: this.rebuildTargets[i] || its original position.
Target(i) ==
    IF i + 1 <= Len(rebuildTargets)
      THEN [ x |-> rebuildTargets[i + 1].x, y |-> rebuildTargets[i + 1].y,
             z |-> rebuildTargets[i + 1].z ]
      ELSE [ x |-> voxels[i + 1].originalX, y |-> voxels[i + 1].originalY,
             z |-> voxels[i + 1].originalZ ]

\* 2. Rebuild physics on one voxel flying to t.
Flight(v, t) ==
    LET dx == t.x - v.x
        dy == t.y - v.y
        dz == t.z - v.z
        distSq == dx * dx + dy * dy + dz * dz
    IN IF distSq * 100 > 5 * Scale * Scale
         THEN [ v EXCEPT !.x = v.x + Mul(dx, 12, 100),
                         !.y = v.y + Mul(dy, 12, 100),
                         !.z = v.z + Mul(dz, 12, 100),
                         !.rx = v.rx + Mul(0 - v.rx, 12, 100),
                         !.ry = v.ry + Mul(0 - v.ry, 12, 100),
                         !.rz = v.rz + Mul(0 - v.rz, 12, 100) ]
         ELSE IF v.x # t.x
                THEN [ v EXCEPT !.x = t.x, !.y = t.y, !.z = t.z,
                                !.rx = 0, !.ry = 0, !.rz = 0 ]
                ELSE v

\* Rejecting physics that takes the place reached as the new original position.
Bounce_MovesOrigin(v) ==
    LET vy1 == v.vy - 4
    IN [ v EXCEPT !.vy = vy1, !.x = v.x + v.vx, !.y = v.y + vy1, !.z = v.z + v.vz,
                  !.originalY = v.y + vy1 ]

\* 3. Rejecting physics on one voxel.
Bounce(v) ==
    LET vy1 == v.vy - 4
        y1  == v.y + vy1
        moved == [ v EXCEPT !.vy = vy1, !.x = v.x + v.vx, !.y = y1, !.z = v.z + v.vz ]
    IN IF y1 < FloorLevel
         THEN [ moved EXCEPT !.y = FloorLevel, !.vy = Mul(vy1, -40, 100) ]
         ELSE moved

\* The guards of the three loops of updatePhysics for the voxel of index i.
RubbleRuns(i) == i \notin activeRebuildIndices /\ i \notin rejectingIndices

FlightRuns(i) ==
    /\ state \in {INTERACTIVE_REBUILD, REJECTING}
    /\ i \in activeRebuildIndices

BounceRuns(i) == state = REJECTING /\ i \in rejectingIndices

\* One frame of voxel i: the three loops run one after the other.
StepVoxel(i) ==
    LET v0 == voxels[i + 1]
        v1 == IF RubbleRuns(i) THEN Rubble(v0) ELSE v0
        v2 == IF FlightRuns(i) THEN Flight(v1, Target(i)) ELSE v1
    IN IF BounceRuns(i) THEN Bounce(v2) ELSE v2

BranchesRun(i) ==
    (IF RubbleRuns(i) THEN {"rubble"} ELSE {})
      \cup (IF FlightRuns(i) THEN {"flight"} ELSE {})
      \cup (IF BounceRuns(i) THEN {"bounce"} ELSE {})

\* A frame that declares the model rebuilt once no flying voxel moves.
Frame_AutoStable ==
    /\ UNCHANGED <<stepCentroids, jsonData, gameVars>>
    /\ nTicks' = nTicks + 1
    /\ lastOp' = [op |-> "tick", arg |-> 0, ret |-> state # STABLE, again |-> FALSE,
                  emits |-> <<>>, count |-> -1]
    /\ IF state = STABLE
         THEN /\ branches' = [ k \in 1..Len(voxels) |-> {} ]
              /\ UNCHANGED <<voxels, state>>
         ELSE /\ branches' = [ k \in 1..Len(voxels) |-> BranchesRun(k - 1) ]
              /\ voxels' = [ k \in 1..Len(voxels) |-> StepVoxel(k - 1) ]
              /\ state' = IF /\ state = INTERACTIVE_REBUILD
                             /\ activeRebuildIndices # {}
                             /\ \A i \in activeRebuildIndices :
                                   i < Len(voxels) => StepVoxel(i) = voxels[i + 1]
                            THEN STABLE ELSE state
    /\ UNCHANGED <<rebuildTargets, activeRebuildIndices, rejectingIndices,
                   timers, appState, voxelCount, nCalls>>

\* A frame without the early return in Stable.
Frame_NoPause ==
    /\ UNCHANGED <<stepCentroids, jsonData, gameVars>>
    /\ nTicks' = nTicks + 1
    /\ lastOp' = [op |-> "tick", arg |-> 0, ret |-> state # STABLE, again |-> FALSE,
                  emits |-> <<>>, count |-> -1]
    /\ branches' = [ k \in 1..Len(voxels) |-> BranchesRun(k - 1) ]
    /\ voxels' = [ k \in 1..Len(voxels) |-> StepVoxel(k - 1) ]
    /\ UNCHANGED <<rebuildTargets, activeRebuildIndices, rejectingIndices, state,
                   timers, appState, voxelCount, nCalls>>

\* animate -> updatePhysics: one frame.
Frame ==
    /\ UNCHANGED <<stepCentroids, jsonData, gameVars>>
    /\ nTicks' = nTicks + 1
    /\ lastOp' = [op |-> "tick", arg |-> 0, ret |-> state # STABLE, again |-> FALSE,
                  emits |-> <<>>, count |-> -1]
    /\ IF state = STABLE
         THEN /\ branches' = [ k \in 1..Len(voxels) |-> {} ]
              /\ UNCHANGED voxels
         ELSE /\ branches' = [ k \in 1..Len(voxels) |-> BranchesRun(k - 1) ]
              /\ voxels' = [ k \in 1..Len(voxels) |-> StepVoxel(k - 1) ]
    /\ UNCHANGED <<rebuildTargets, activeRebuildIndices, rejectingIndices, state,
                   timers, appState, voxelCount, nCalls>>

updatePhysics == nTicks < MaxTicks /\ Frame

Next ==
    \/ Load
    \/ Dismantle
    \/ RebuildLayer
    \/ RejectLayer
    \/ TimerFire
    \/ updatePhysics

Spec == Init /\ [][Next]_vars

\* The same engine with fewer commands per behaviour, for the liveness checks.
LiveNext ==
    \/ (nCalls < MaxLiveCalls /\ Load)
    \/ (nCalls < MaxLiveCalls /\ Dismantle)
    \/ (nCalls < MaxLiveCalls /\ RebuildLayer)
    \/ (nCalls < MaxLiveCalls /\ RejectLayer)
    \/ TimerFire
    \/ updatePhysics

\* setTimeout callbacks always fire in the end; nothing else is promised.
LiveSpec == Init /\ [][LiveNext]_vars /\ WF_vars(TimerFire)

\* -------------------------------------------------------- getStepCentroids
\* Stand-ins for the view: THREE's camera projection is library code, taken
\* here as an orthographic view of half-extent ViewHalf on a container of
\* clientWidth x clientHeight pixels.
ViewHalf == 20
clientWidth == 800
clientHeight == 600

\* vec.project(this.camera): normalised device coordinates, in 1/Scale.
Project(c) == [x |-> Mul(c.x, 1, ViewHalf), y |-> Mul(c.y, 1, ViewHalf),
               z |-> Mul(c.z, 1, ViewHalf)]

\* The forEach that fills sums, from voxels[k] on.
RECURSIVE SumScan(_, _)
SumScan(k, sums) ==
    IF k > Len(voxels) THEN sums
    ELSE LET v == voxels[k]
             old == IF v.stepIndex \in DOMAIN sums THEN sums[v.stepIndex]
                    ELSE [x |-> 0, y |-> 0, z |-> 0, count |-> 0]
         IN IF v.stepIndex >= 0
              THEN SumScan(k + 1,
                           (v.stepIndex :> [x |-> old.x + v.x, y |-> old.y + v.y,
                                            z |-> old.z + v.z, count |-> old.count + 1])
                             @@ sums)
              ELSE SumScan(k + 1, sums)

\* The entry of step i computed from the sum, without dividing by the count.
Centroid_NoDivide(sums, i) ==
    IF i \in DOMAIN sums /\ sums[i].count > 0
      THEN LET vec == Project([x |-> sums[i].x, y |-> sums[i].y, z |-> sums[i].z])
           IN [x |-> (Mul(vec.x, 1, 2) + 50) * clientWidth,
               y |-> (50 - Mul(vec.y, 1, 2)) * clientHeight,
               visible |-> vec.z < Scale /\ Abs(vec.x) < 110 /\ Abs(vec.y) < 110]
      ELSE [x |-> 0, y |-> 0, visible |-> FALSE]

\* The body of the for loop: the entry pushed for step i.
Centroid(sums, i) ==
    IF i \in DOMAIN sums /\ sums[i].count > 0
      THEN LET cx == Mul(sums[i].x, 1, sums[i].count)
               cy == Mul(sums[i].y, 1, sums[i].count)
               cz == Mul(sums[i].z, 1, sums[i].count)
               vec == Project([x |-> cx, y |-> cy, z |-> cz])
           IN [x |-> (Mul(vec.x, 1, 2) + 50) * clientWidth,
               y |-> (50 - Mul(vec.y, 1, 2)) * clientHeight,
               visible |-> vec.z < Scale /\ Abs(vec.x) < 110 /\ Abs(vec.y) < 110]
      ELSE [x |-> 0, y |-> 0, visible |-> FALSE]

\* The array returned; entry i is at position i + 1.
getStepCentroids(stepCount) ==
    LET sums == SumScan(1, <<>>)
    IN [ n \in 1..stepCount |-> Centroid(sums, n - 1) ]

\* A poll that also writes the centroid back into the step's first voxel.
PollCentroids_Recentre ==
    \E stepCount \in 0..MaxSteps :
        /\ stepCentroids' = getStepCentroids(stepCount)
        /\ lastOp' = [op |-> "centroids", arg |-> stepCount, ret |-> TRUE,
                      again |-> FALSE, emits |-> <<>>, count |-> -1]
        /\ voxels' = [ k \in 1..Len(voxels) |->
                         IF voxels[k].stepIndex \in 0..(stepCount - 1)
                           THEN [ voxels[k] EXCEPT !.x = voxels[k].x + 1 ]
                           ELSE voxels[k] ]
        /\ UNCHANGED <<rebuildTargets, activeRebuildIndices, rejectingIndices, state,
                       timers, appState, voxelCount, branches, nTicks, nCalls,
                       jsonData, gameVars>>

\* App's 30 ms interval: getStepCentroids(lessonSteps.length), then
\* setStepCentroids.
PollCentroids ==
    \E stepCount \in 0..MaxSteps :
        /\ stepCentroids' = getStepCentroids(stepCount)
        /\ lastOp' = [op |-> "centroids", arg |-> stepCount, ret |-> TRUE,
                      again |-> FALSE, emits |-> <<>>, count |-> -1]
        /\ UNCHANGED <<voxels, rebuildTargets, activeRebuildIndices, rejectingIndices,
                       state, timers, appState, voxelCount, branches, nTicks, nCalls,
                       jsonData, gameVars>>

\* The engine polled between its commands, callbacks and frames.
PollNext ==
    \/ (nCalls < MaxLiveCalls /\ Load)
    \/ (nCalls < MaxLiveCalls /\ Dismantle)
    \/ (nCalls < MaxLiveCalls /\ RebuildLayer)
    \/ (nCalls < MaxLiveCalls /\ RejectLayer)
    \/ TimerFire
    \/ updatePhysics
    \/ PollCentroids

PollSpec == Init /\ [][PollNext]_vars

\* ----------------------------------------------------------- React renders
\* The App function runs again after a handler's setState calls: the handlers
\* it creates close over the new currentStepIndex and completedSteps.
Rerender ==
    rendered' = [currentStepIndex |-> currentStepIndex',
                 completedSteps |-> completedSteps']

\* ------------------------------------------- getJsonData, handleJsonImport
\* Values of parsed JSON and of property reads on them: t is the typeof (with
\* "null" and "undefined" apart), n the value of a number, s the characters of
\* a string.  Coordinates carry n in 1/Scale, colors and step tags in units.
JsUndefined == [t |-> "undefined", n |-> 0, s |-> <<>>]
JsNull      == [t |-> "null", n |-> 0, s |-> <<>>]
JsNum(n)    == [t |-> "number", n |-> n, s |-> <<>>]
JsStr(s)    == [t |-> "string", n |-> 0, s |-> s]

\* The number that is not a number, as a value no coordinate, color or tag takes.
NaN == -1000000

HexDigits == <<"0", "1", "2", "3", "4", "5", "6", "7", "8", "9",
               "a", "b", "c", "d", "e", "f">>

IsHexDigit(c) == \E d \in 1..16 : HexDigits[d] = c
DigitValue(c) == (CHOOSE d \in 1..16 : HexDigits[d] = c) - 1
IsDecDigit(c) == \E d \in 1..10 : HexDigits[d] = c

\* The digits of s from position k on, read in the given radix after acc, up to
\* the first character that is no digit of that radix.
RECURSIVE ReadDigits(_, _, _, _)
ReadDigits(s, k, radix, acc) ==
    IF k > Len(s) \/ ~IsHexDigit(s[k]) \/ DigitValue(s[k]) >= radix THEN acc
    ELSE ReadDigits(s, k + 1, radix, acc * radix + DigitValue(s[k]))

\* parseInt(s, 16) on strings without sign, blanks or 0x prefix.
parseInt16(s) ==
    IF s = <<>> \/ ~IsHexDigit(s[1]) THEN NaN ELSE ReadDigits(s, 1, 16, 0)

\* Number(v) in units of 1/unit, on strings without sign, blanks, point or exponent.
Number(v, unit) ==
    CASE v.t = "undefined" -> NaN
      [] v.t = "null"      -> 0
      [] v.t = "number"    -> v.n
      [] v.t = "string"    ->
            IF \A k \in 1..Len(v.s) : IsDecDigit(v.s[k])
              THEN ReadDigits(v.s, 1, 10, 0) * unit
              ELSE NaN

\* a || b on the values above.
Truthy(v) ==
    CASE v.t = "undefined" -> FALSE
      [] v.t = "null"      -> FALSE
      [] v.t = "number"    -> v.n # 0 /\ v.n # NaN
      [] v.t = "string"    -> v.s # <<>>

\* Number(a) || 0
OrZero(n) == IF n = NaN THEN 0 ELSE n

Gray == 13421772

\* THREE.Color.getHexString(): six lowercase hexadecimal digits.
RECURSIVE HexString(_, _)
HexString(color, digits) ==
    IF digits = 0 THEN <<>>
    ELSE Append(HexString(color \div 16, digits - 1), HexDigits[(color % 16) + 1])

\* getJsonData followed by JSON.parse: JSON.stringify writes NaN as null.
getJsonData ==
    [ k \in 1..Len(voxels) |->
        [ x |-> JsNum(voxels[k].x), y |-> JsNum(voxels[k].y), z |-> JsNum(voxels[k].z),
          c |-> JsUndefined,
          color |-> JsStr(<<"#">> \o HexString(voxels[k].color, 6)),
          stepIndex |-> IF voxels[k].stepIndex = NaN THEN JsNull
                        ELSE JsNum(voxels[k].stepIndex) ] ]

\* The map callback of handleJsonImport: one entry of rawData to VoxelData.
ImportEntry(v) ==
    LET colorVal == IF Truthy(v.c) THEN v.c ELSE v.color
        colorInt == CASE colorVal.t = "string" ->
                            parseInt16(IF colorVal.s # <<>> /\ colorVal.s[1] = "#"
                                         THEN Tail(colorVal.s) ELSE colorVal.s)
                      [] colorVal.t = "number" -> colorVal.n
                      [] OTHER -> Gray
    IN [ x |-> OrZero(Number(v.x, Scale)),
         y |-> OrZero(Number(v.y, Scale)),
         z |-> OrZero(Number(v.z, Scale)),
         color |-> IF colorInt = NaN THEN Gray ELSE colorInt,
         hasStep |-> TRUE,
         stepIndex |-> IF v.stepIndex.t # "undefined" THEN Number(v.stepIndex, 1)
                       ELSE -1 ]

\* Texts a user pastes into the import box, as parsed by JSON.parse: arrays of
\* entries, and one text that is no array.
ImportTexts ==
    { [isArray |-> TRUE,
       entries |-> << [x |-> JsNum(150), y |-> JsStr(<<"5">>), z |-> JsUndefined,
                       c |-> JsUndefined, color |-> JsStr(<<"#", "z", "z">>),
                       stepIndex |-> JsStr(<<"a", "b", "c">>)] >>],
      [isArray |-> TRUE,
       entries |-> << [x |-> JsNull, y |-> JsNum(-1000), z |-> JsStr(<<"x">>),
                       c |-> JsNum(255), color |-> JsUndefined,
                       stepIndex |-> JsNull] >>],
      [isArray |-> TRUE,
       entries |-> << [x |-> JsNum(0), y |-> JsNum(-1100), z |-> JsNum(0),
                       c |-> JsUndefined, color |-> JsStr(<<"#", "0", "0", "0", "0", "0", "a">>),
                       stepIndex |-> JsNum(1)],
                      [x |-> JsNum(100), y |-> JsNum(-1100), z |-> JsNum(0),
                       c |-> JsUndefined, color |-> JsStr(<<"1", "f">>),
                       stepIndex |-> JsUndefined] >>],
      [isArray |-> FALSE, entries |-> <<>>] }

\* handleShowJson: the export shown in the modal.
handleShowJson ==
    /\ jsonData' = getJsonData
    /\ lastOp' = [op |-> "export", arg |-> 0, ret |-> TRUE, again |-> FALSE,
                  emits |-> <<>>, count |-> -1]
    /\ UNCHANGED <<voxels, rebuildTargets, activeRebuildIndices, rejectingIndices,
                   state, timers, appState, voxelCount, branches, nTicks, nCalls,
                   stepCentroids, gameVars>>

\* handleJsonImport on a parsed text.
handleJsonImport(raw) ==
    IF ~raw.isArray
      THEN /\ lastOp' = [op |-> "import", arg |-> 0, ret |-> FALSE, again |-> FALSE,
                         emits |-> <<>>, count |-> -1]
           /\ nCalls' = nCalls + 1
           /\ UNCHANGED <<voxels, rebuildTargets, activeRebuildIndices,
                          rejectingIndices, state, timers, appState, voxelCount,
                          branches, nTicks, stepCentroids, jsonData, gameVars>>
      ELSE LET voxelData == [ k \in 1..Len(raw.entries) |-> ImportEntry(raw.entries[k]) ]
           IN /\ \E jit \in [1..Len(voxelData) -> Jitters] :
                    loadInitialModel(voxelData, jit)
              /\ lessonSteps' = 0
              /\ completedSteps' = {}
              /\ UNCHANGED <<currentStepIndex, lastClick, customBuilds>>
              /\ Rerender

\* The user imports a text of their own, or the text just exported.
JsonImport ==
    /\ nCalls < MaxImportCalls
    /\ \E raw \in ImportTexts \cup {[isArray |-> TRUE, entries |-> jsonData]} :
          handleJsonImport(raw)

\* The engine with export and import: loads, dismantles, frames, exports and
\* imports.
ImportNext ==
    \/ (nCalls < MaxImportCalls /\ Load)
    \/ (nCalls < MaxImportCalls /\ Dismantle)
    \/ updatePhysics
    \/ handleShowJson
    \/ JsonImport

ImportSpec == Init /\ [][ImportNext]_vars

\* ------------------------------------------------------------ the App's game
\* A template that builds no layer for the last step.
Templates_SkipLast(n) ==
    [ k \in 1..(n - 1) |->
        [ x |-> 0, y |-> (FLOOR_Y + 1 + 3 * (k - 1)) * Scale, z |-> 0,
          color |-> 40 + k, hasStep |-> TRUE, stepIndex |-> k - 1 ] ]

\* Templates.Pyramid / Tower / Spiral on n steps: layer k of the stack, three
\* units high from FLOOR_Y + 1 up, carries tag k; one voxel stands for a layer.
Templates(n) ==
    [ k \in 1..n |->
        [ x |-> 0, y |-> (FLOOR_Y + 1 + 3 * (k - 1)) * Scale, z |-> 0,
          color |-> 40 + k, hasStep |-> TRUE, stepIndex |-> k - 1 ] ]

\* Generators.Eagle(): voxels without a stepIndex; one voxel stands for the bird.
Eagle == << [x |-> 0, y |-> -10 * Scale, z |-> 1 * Scale, color |-> 30,
             hasStep |-> TRUE, stepIndex |-> -1] >>

\* loadLessonFromSteps on n steps.
loadLessonFromSteps(n) ==
    /\ \E jit \in [1..n -> Jitters] : loadInitialModel(Templates(n), jit)
    /\ lessonSteps' = n
    /\ completedSteps' = 0..(n - 1)
    /\ currentStepIndex' = n
    /\ customBuilds' = customBuilds \cup {n}
    /\ UNCHANGED lastClick
    /\ Rerender

\* handlePromptSubmit: the steps of the answer, or the fallback steps.
LoadLesson ==
    /\ nCalls < MaxGameCalls
    /\ \E n \in 1..MaxSteps : loadLessonFromSteps(n)

\* handleSelectCustomBuild on a saved lesson of n steps.
handleSelectCustomBuild(n) ==
    /\ \E jit \in [1..n -> Jitters] : loadInitialModel(Templates(n), jit)
    /\ lessonSteps' = n
    /\ completedSteps' = 0..(n - 1)
    /\ currentStepIndex' = n
    /\ UNCHANGED <<lastClick, customBuilds>>
    /\ Rerender

SelectCustomBuild ==
    /\ nCalls < MaxGameCalls
    /\ \E n \in customBuilds : handleSelectCustomBuild(n)

\* handleNewScene('Eagle').
handleNewScene ==
    /\ nCalls < MaxGameCalls
    /\ \E jit \in [1..Len(Eagle) -> Jitters] : loadInitialModel(Eagle, jit)
    /\ lessonSteps' = 0
    /\ completedSteps' = {}
    /\ UNCHANGED <<currentStepIndex, lastClick, customBuilds>>
    /\ Rerender

\* handleDismantle without setCompletedSteps(new Set()).
handleDismantle_KeepCompleted ==
    /\ nCalls < MaxGameCalls
    /\ appState = STABLE
    /\ lessonSteps > 0
    /\ \E imp \in [1..Len(voxels) -> Impulses] : dismantle(imp)
    /\ currentStepIndex' = 0
    /\ UNCHANGED <<lessonSteps, completedSteps, lastClick, customBuilds>>
    /\ Rerender

\* handleDismantle, behind the DECONSTRUCT button: shown while the App's mode
\* is Stable and the lesson has steps.
handleDismantle ==
    /\ nCalls < MaxGameCalls
    /\ appState = STABLE
    /\ lessonSteps > 0
    /\ \E imp \in [1..Len(voxels) -> Impulses] : dismantle(imp)
    /\ currentStepIndex' = 0
    /\ completedSteps' = {}
    /\ UNCHANGED <<lessonSteps, lastClick, customBuilds>>
    /\ Rerender

\* handleStepClick without the early return for a completed step, here and in
\* handleStepSelection.
handleStepClick_NoCompletedGuard(clickedIndex) ==
    IF clickedIndex = rendered.currentStepIndex
      THEN /\ rebuildLayer(clickedIndex)
           /\ completedSteps' = completedSteps \cup {clickedIndex}
           /\ currentStepIndex' = rendered.currentStepIndex + 1
           /\ lastClick' = [index |-> clickedIndex, ret |-> TRUE]
           /\ UNCHANGED <<lessonSteps, customBuilds>>
      ELSE /\ \E jig \in [Matching(clickedIndex) -> Jiggles] :
                  rejectLayer(clickedIndex, jig)
           /\ lastClick' = [index |-> clickedIndex, ret |-> FALSE]
           /\ UNCHANGED <<lessonSteps, currentStepIndex, completedSteps, customBuilds>>

\* handleStepClick that takes any step not yet completed as the right one.
handleStepClick_AnyOrder(clickedIndex) ==
    IF clickedIndex \in rendered.completedSteps
      THEN /\ lastClick' = [index |-> clickedIndex, ret |-> TRUE]
           /\ lastOp' = [op |-> "click", arg |-> clickedIndex, ret |-> TRUE,
                         again |-> FALSE, emits |-> <<>>, count |-> -1]
           /\ nCalls' = nCalls + 1
           /\ UNCHANGED <<voxels, rebuildTargets, activeRebuildIndices,
                          rejectingIndices, state, timers, appState, voxelCount,
                          branches, nTicks, stepCentroids, jsonData, lessonSteps,
                          currentStepIndex, completedSteps, customBuilds>>
      ELSE /\ rebuildLayer(clickedIndex)
           /\ completedSteps' = completedSteps \cup {clickedIndex}
           /\ currentStepIndex' = rendered.currentStepIndex + 1
           /\ lastClick' = [index |-> clickedIndex, ret |-> TRUE]
           /\ UNCHANGED <<lessonSteps, customBuilds>>

\* handleStepClick(clickedIndex): the handler reads currentStepIndex and
\* completedSteps as its render saw them; setCompletedSteps(prev => ...) adds
\* to the set as it is now.
handleStepClick(clickedIndex) ==
    IF clickedIndex \in rendered.completedSteps
      THEN /\ lastClick' = [index |-> clickedIndex, ret |-> TRUE]
           /\ lastOp' = [op |-> "click", arg |-> clickedIndex, ret |-> TRUE,
                         again |-> FALSE, emits |-> <<>>, count |-> -1]
           /\ nCalls' = nCalls + 1
           /\ UNCHANGED <<voxels, rebuildTargets, activeRebuildIndices,
                          rejectingIndices, state, timers, appState, voxelCount,
                          branches, nTicks, stepCentroids, jsonData, lessonSteps,
                          currentStepIndex, completedSteps, customBuilds>>
      ELSE IF clickedIndex = rendered.currentStepIndex
        THEN /\ rebuildLayer(clickedIndex)
             /\ completedSteps' = completedSteps \cup {clickedIndex}
             /\ currentStepIndex' = rendered.currentStepIndex + 1
             /\ lastClick' = [index |-> clickedIndex, ret |-> TRUE]
             /\ UNCHANGED <<lessonSteps, customBuilds>>
        ELSE /\ \E jig \in [Matching(clickedIndex) -> Jiggles] :
                    rejectLayer(clickedIndex, jig)
             /\ lastClick' = [index |-> clickedIndex, ret |-> FALSE]
             /\ UNCHANGED <<lessonSteps, currentStepIndex, completedSteps, customBuilds>>

\* A click on one of the step options, shown while the App's mode is
\* Dismantling, InteractiveRebuild or Rejecting and the lesson has steps, and
\* the render that follows it.
StepClick ==
    /\ nCalls < MaxGameCalls
    /\ appState \in {DISMANTLING, INTERACTIVE_REBUILD, REJECTING}
    /\ lessonSteps > 0
    /\ \E clickedIndex \in 0..(lessonSteps - 1) : handleStepClick(clickedIndex)
    /\ Rerender

\* The App as its user drives it.
GameNext ==
    \/ LoadLesson
    \/ SelectCustomBuild
    \/ handleNewScene
    \/ JsonImport
    \/ handleDismantle
    \/ StepClick
    \/ TimerFire
    \/ updatePhysics

GameSpec == Init /\ [][GameNext]_vars

\* A click handled before the render that the previous click asked for: the
\* handler is the one the last render created.
StepClickBeforeRender ==
    /\ nCalls < MaxGameCalls
    /\ appState \in {DISMANTLING, INTERACTIVE_REBUILD, REJECTING}
    /\ lessonSteps > 0
    /\ \E clickedIndex \in 0..(lessonSteps - 1) : handleStepClick(clickedIndex)
    /\ UNCHANGED rendered

\* The render that the setState calls of the clicks asked for.
Render ==
    /\ rendered # [currentStepIndex |-> currentStepIndex,
                   completedSteps |-> completedSteps]
    /\ rendered' = [currentStepIndex |-> currentStepIndex,
                    completedSteps |-> completedSteps]
    /\ UNCHANGED <<voxels, rebuildTargets, activeRebuildIndices, rejectingIndices,
                   state, timers, appState, voxelCount, lastOp, branches, nTicks,
                   nCalls, stepCentroids, jsonData, lessonSteps, currentStepIndex,
                   completedSteps, lastClick, customBuilds>>

\* The game with clicks that arrive faster than the App renders.
ClosureNext ==
    \/ LoadLesson
    \/ SelectCustomBuild
    \/ handleNewScene
    \/ JsonImport
    \/ handleDismantle
    \/ StepClickBeforeRender
    \/ Render
    \/ TimerFire
    \/ updatePhysics

ClosureSpec == Init /\ [][ClosureNext]_vars

\* One run of the engine with many frames: a load, a dismantle, frames, at most
\* one rebuildLayer, and frames again.
RunNext ==
    \/ (nCalls = 0 /\ Load)
    \/ (nCalls = 1 /\ Dismantle)
    \/ (nCalls = 2 /\ RebuildLayer)
    \/ (nCalls >= 2 /\ nTicks < MaxRunTicks /\ Frame)

RunSpec == Init /\ [][RunNext]_vars

\* ------------------------------------------------- the settle-and-rebuild run
\* ScenarioVoxels voxels in a row at height 5, all of step 0.
ScenarioModel ==
    [ k \in 1..ScenarioVoxels |->
        [ x |-> (k - 1) * Scale, y |-> 5 * Scale, z |-> 0, color |-> 10,
          hasStep |-> TRUE, stepIndex |-> 0 ] ]

\* loadInitialModel, dismantle and frames; after ScenarioRestTicks frames the
\* caller may ask for rebuildLayer(0), and ScenarioFlightTicks frames follow.
ScenarioNext ==
    \/ /\ nCalls = 0
       /\ \E jit \in [1..ScenarioVoxels -> Jitters] : loadInitialModel(ScenarioModel, jit)
       /\ UNCHANGED gameVars
    \/ (nCalls = 1 /\ Dismantle)
    \/ /\ nCalls = 2
       /\ nTicks = ScenarioRestTicks
       /\ rebuildLayer(0)
       /\ UNCHANGED gameVars
    \/ /\ nCalls >= 2
       /\ nTicks < ScenarioRestTicks + ScenarioFlightTicks
       /\ Frame

ScenarioSpec == Init /\ [][ScenarioNext]_vars

\* ================================================================== claims
\* The 0-based indices of the voxels that carry tag T, read off the store.
Tagged(T) == { i \in 0..(Len(voxels) - 1) : voxels[i + 1].stepIndex = T }

\* C1: immediately after a load of K voxel specs, from whatever state, the
\* voxel count is K, the mode is Stable and both sets are empty.
C1_LoadResets ==
    lastOp.op = "load" =>
        /\ Len(voxels) = Len(lastOp.arg)
        /\ voxelCount = Len(lastOp.arg)
        /\ state = STABLE
        /\ activeRebuildIndices = {}
        /\ rejectingIndices = {}

\* A load of a full model that follows a rejectLayer whose callback is still pending.
C1_Witness ==
    /\ lastOp.op = "load"
    /\ Len(lastOp.arg) = MaxVoxels
    /\ timers # <<>>
    /\ nCalls >= 3

\* C2: immediately after a load, voxel i has id i, its position and its
\* original position are the input's (x, y, z), its velocities and rotations
\* are 0 and its step tag is the input's stepIndex, or -1 when there is none.
C2_LoadedVoxels ==
    lastOp.op = "load" =>
        \A k \in 1..Len(lastOp.arg) :
            LET v == voxels[k]
                d == lastOp.arg[k]
            IN /\ v.id = k - 1
               /\ v.x = d.x /\ v.y = d.y /\ v.z = d.z
               /\ v.originalX = v.x /\ v.originalY = v.y /\ v.originalZ = v.z
               /\ v.vx = 0 /\ v.vy = 0 /\ v.vz = 0
               /\ v.rvx = 0 /\ v.rvy = 0 /\ v.rvz = 0
               /\ v.rx = 0 /\ v.ry = 0 /\ v.rz = 0
               /\ (d.hasStep => v.stepIndex = d.stepIndex)
               /\ (~d.hasStep => v.stepIndex = -1)

\* A load, after a frame moved the voxels of an earlier model, of a model
\* with a voxel that has no stepIndex.
C2_Witness ==
    /\ lastOp.op = "load"
    /\ nTicks >= 1
    /\ Len(lastOp.arg) = MaxVoxels
    /\ \E k \in 1..Len(lastOp.arg) : ~lastOp.arg[k].hasStep

\* C3: the callback of a rejectLayer fires as a no-op when another command
\* took the mode away from Rejecting between that rejectLayer and the firing:
\* it changes neither the mode nor the rejecting set.
C3_StaleTimerIsNoOp ==
    [][ (timers # <<>> /\ lastOp'.op = "timer" /\ Head(timers).stale)
          => (state' = state /\ rejectingIndices' = rejectingIndices) ]_vars

\* C4: the callback of a rejectLayer that a load followed changes nothing
\* when it fires: mode, both sets and the voxels stay as they are.
C4_TimerAfterLoadIsNoOp ==
    [][ (timers # <<>> /\ lastOp'.op = "timer" /\ Head(timers).loaded)
          => UNCHANGED <<state, rejectingIndices, activeRebuildIndices, voxels>> ]_vars

\* The newest pending callback belongs to rejectLayer(T) and no command ran since.
Pending(T) ==
    /\ timers # <<>>
    /\ ~timers[Len(timers)].stale
    /\ timers[Len(timers)].stepIndex = T

\* A load, rebuildLayer or accepted dismantle ran after the newest rejectLayer.
CommandSince == timers # <<>> /\ timers[Len(timers)].stale

Reverted(T) ==
    /\ state = INTERACTIVE_REBUILD
    /\ appState = INTERACTIVE_REBUILD
    /\ rejectingIndices \cap Tagged(T) = {}

\* C5: after rejectLayer(T), unless a further command is issued, the engine
\* eventually is in InteractiveRebuild, notified to the App, with none of T's
\* voxels in the rejecting set (callbacks fire fairly, frames run or not).
C5_RejectReverts ==
    \A T \in StepArgs : Pending(T) ~> (Reverted(T) \/ CommandSince)

\* The callback of the newest rejectLayer, for a tag that has voxels, reverted
\* the mode after a frame ran.
C5_Witness ==
    /\ lastOp.op = "timer"
    /\ lastOp.ret
    /\ ~lastOp.arg.stale
    /\ Tagged(lastOp.arg.stepIndex) # {}
    /\ nTicks >= 1
    /\ Reverted(lastOp.arg.stepIndex)

\* C6: no voxel index is in the active-flight set and in the rejecting set.
C6_SetsDisjoint == activeRebuildIndices \cap rejectingIndices = {}

\* C7: in every frame at most one of the three physics branches runs on a voxel.
C7_OneBranchPerVoxel ==
    \A k \in DOMAIN branches : Cardinality(branches[k]) <= 1

\* C8: rebuildLayer(T) for a tag T that has voxels returns true, sets the mode
\* to InteractiveRebuild, adds exactly T's voxels to the active-flight set and
\* removes exactly them from the rejecting set.
C8_RebuildLayerSets ==
    [][ \A T \in StepArgs :
          (lastOp'.op = "rebuildLayer" /\ lastOp'.arg = T /\ Tagged(T) # {})
            => /\ lastOp'.ret = TRUE
               /\ state' = INTERACTIVE_REBUILD
               /\ activeRebuildIndices' = activeRebuildIndices \cup Tagged(T)
               /\ rejectingIndices' = rejectingIndices \ Tagged(T)
               /\ \A i \in (0..(Len(voxels) - 1)) \ Tagged(T) :
                     /\ (i \in activeRebuildIndices') = (i \in activeRebuildIndices)
                     /\ (i \in rejectingIndices') = (i \in rejectingIndices) ]_vars

\* rebuildLayer(T) found voxels right after rejectLayer(T), whose callback is
\* pending, had put them in the rejecting set.
C8_Witness ==
    /\ lastOp.op = "rebuildLayer"
    /\ lastOp.ret
    /\ Len(voxels) = MaxVoxels
    /\ Len(timers) = 1
    /\ timers[1].stepIndex = lastOp.arg
    /\ Tagged(lastOp.arg) \subseteq activeRebuildIndices
    /\ Tagged(lastOp.arg) \cap rejectingIndices = {}

\* C9: rebuildLayer and rejectLayer for a tag that no voxel carries leave both
\* sets and every voxel as they are, and rebuildLayer returns false.
C9_UnknownTagNoEffect ==
    [][ \A T \in StepArgs :
          (lastOp'.op \in {"rebuildLayer", "rejectLayer"} /\ lastOp'.arg = T
             /\ Tagged(T) = {})
            => /\ activeRebuildIndices' = activeRebuildIndices
               /\ rejectingIndices' = rejectingIndices
               /\ voxels' = voxels
               /\ (lastOp'.op = "rebuildLayer" => lastOp'.ret = FALSE) ]_vars

\* rebuildLayer returned false for a tag without voxels while voxels of
\* another tag were in a set.
C9_Witness ==
    /\ lastOp.op = "rebuildLayer"
    /\ ~lastOp.ret
    /\ Tagged(lastOp.arg) = {}
    /\ voxels # <<>>
    /\ activeRebuildIndices \cup rejectingIndices # {}

\* C10: a second rebuildLayer(T) right after the first returns the same value
\* and leaves the mode and both sets as the first call left them.
C10_RebuildLayerIdempotent ==
    [][ (lastOp.op = "rebuildLayer" /\ lastOp'.op = "rebuildLayer"
           /\ lastOp'.arg = lastOp.arg)
          => /\ lastOp'.ret = lastOp.ret
             /\ state' = state
             /\ activeRebuildIndices' = activeRebuildIndices
             /\ rejectingIndices' = rejectingIndices ]_vars

\* The second of two rebuildLayer(T) in a row, for a tag that has voxels.
C10_Witness ==
    /\ lastOp.op = "rebuildLayer"
    /\ lastOp.again
    /\ lastOp.ret
    /\ activeRebuildIndices # {}


\* C11: a voxel that rebuildLayer sent flying ends, while the mode stays
\* InteractiveRebuild, exactly at its original position with rotation (0,0,0):
\* a flying voxel that frames no longer move has arrived.
C11_FlightArrives ==
    \A i \in activeRebuildIndices :
        (state = INTERACTIVE_REBUILD /\ i < Len(voxels)
           /\ Flight(voxels[i + 1], Target(i)) = voxels[i + 1])
          => /\ voxels[i + 1].x = voxels[i + 1].originalX
             /\ voxels[i + 1].y = voxels[i + 1].originalY
             /\ voxels[i + 1].z = voxels[i + 1].originalZ
             /\ voxels[i + 1].rx = 0 /\ voxels[i + 1].ry = 0 /\ voxels[i + 1].rz = 0

\* C12: dismantle() called in Stable sets the mode to Dismantling, empties the
\* active-flight and rejecting sets, gives every voxel a nonzero velocity whose
\* vertical component is strictly positive, and sets every rebuild target to
\* the voxel's original position.
C12_DismantleScatters ==
    [][ (lastOp'.op = "dismantle" /\ state = STABLE)
          => /\ state' = DISMANTLING
             /\ activeRebuildIndices' = {}
             /\ rejectingIndices' = {}
             /\ Len(voxels') = Len(voxels)
             /\ Len(rebuildTargets') = Len(voxels)
             /\ \A k \in 1..Len(voxels) :
                   /\ voxels'[k].vy > 0
                   /\ <<voxels'[k].vx, voxels'[k].vy, voxels'[k].vz>> # <<0, 0, 0>>
                   /\ rebuildTargets'[k].x = voxels[k].originalX
                   /\ rebuildTargets'[k].y = voxels[k].originalY
                   /\ rebuildTargets'[k].z = voxels[k].originalZ ]_vars

\* dismantle() was accepted on a full store, and one voxel's velocity is
\* vertical only.
C12_Witness ==
    /\ lastOp.op = "dismantle"
    /\ lastOp.ret
    /\ state = DISMANTLING
    /\ Len(voxels) = MaxVoxels
    /\ \E k \in 1..Len(voxels) : voxels[k].vx = 0 /\ voxels[k].vz = 0 /\ voxels[k].vy > 0

\* C13: dismantle() called in a mode other than Stable changes nothing: the
\* mode, both sets, the rebuild targets and every voxel's position and velocity
\* stay as they were, and no mode-change notification is sent.
C13_DismantleNoOp ==
    [][ (lastOp'.op = "dismantle" /\ state # STABLE)
          => /\ UNCHANGED <<state, activeRebuildIndices, rejectingIndices,
                            rebuildTargets, voxels, appState>>
             /\ lastOp'.emits = <<>> ]_vars

\* dismantle() was refused while a voxel is in flight and another is rubble.
C13_Witness ==
    /\ lastOp.op = "dismantle"
    /\ ~lastOp.ret
    /\ state = INTERACTIVE_REBUILD
    /\ activeRebuildIndices # {}
    /\ Len(voxels) = MaxVoxels
    /\ \E k \in 1..Len(voxels) : (k - 1) \notin activeRebuildIndices /\ voxels[k].vy # 0

\* C14 as stated: rebuildLayer and rejectLayer called in Stable leave the mode
\* Stable.
C14_StableIgnoresSteps ==
    [][ (state = STABLE /\ lastOp'.op \in {"rebuildLayer", "rejectLayer"})
          => state' = STABLE ]_vars

\* C14: while the mode is Stable every command sets the mode: load keeps
\* Stable, dismantle sets Dismantling, rebuildLayer sets InteractiveRebuild and
\* rejectLayer sets Rejecting, before any dismantle too; only a frame (which
\* does no physics) and a timer callback leave the mode Stable.
C14_StableCommands ==
    [][ state = STABLE
          => /\ lastOp'.op = "load" => state' = STABLE
             /\ lastOp'.op = "dismantle" => state' = DISMANTLING
             /\ lastOp'.op = "rebuildLayer" => state' = INTERACTIVE_REBUILD
             /\ lastOp'.op = "rejectLayer" => state' = REJECTING
             /\ lastOp'.op = "timer" => state' = STABLE
             /\ lastOp'.op = "tick" => (state' = STABLE /\ voxels' = voxels) ]_vars

\* rebuildLayer was called on a freshly loaded model, never dismantled, and a
\* frame then ran physics on it.
C14_Witness ==
    /\ nCalls = 2
    /\ Len(voxels) = MaxVoxels
    /\ rebuildTargets = <<>>
    /\ state = INTERACTIVE_REBUILD
    /\ activeRebuildIndices # {}
    /\ lastOp.op = "tick"
    /\ lastOp.ret

\* C15: dismantle() called in Stable on an empty store leaves the mode Stable.
C15_EmptyStoreStaysStable ==
    [][ (lastOp'.op = "dismantle" /\ state = STABLE /\ Len(voxels) = 0)
          => state' = STABLE ]_vars

\* C16: once the mode has left Stable, no frame, timer callback, dismantle,
\* rebuildLayer or rejectLayer sets it back to Stable, not even when every
\* step-tagged voxel is in the active-flight set and at its target: only a
\* load does.
C16_OnlyLoadRestoresStable ==
    [][ (state # STABLE /\ state' = STABLE) => lastOp'.op = "load" ]_vars

\* A frame ran physics on a dismantled model whose step-tagged voxels are all
\* in the active-flight set and at their targets, and the mode is still
\* InteractiveRebuild.
C16_Witness ==
    /\ lastOp.op = "tick"
    /\ lastOp.ret
    /\ state = INTERACTIVE_REBUILD
    /\ rebuildTargets # <<>>
    /\ \E i \in 0..(Len(voxels) - 1) : voxels[i + 1].stepIndex >= 0
    /\ \A i \in 0..(Len(voxels) - 1) :
          voxels[i + 1].stepIndex >= 0
            => /\ i \in activeRebuildIndices
               /\ voxels[i + 1].x = rebuildTargets[i + 1].x
               /\ voxels[i + 1].y = rebuildTargets[i + 1].y
               /\ voxels[i + 1].z = rebuildTargets[i + 1].z

\* C17: a voxel whose step tag is -1 is never in the active-flight set nor in
\* the rejecting set, whatever tag rebuildLayer and rejectLayer were given.
C17_UntaggedNeverInSets ==
    \A i \in Tagged(-1) : i \notin activeRebuildIndices /\ i \notin rejectingIndices

\* C18: at the end of every frame that ran physics, every voxel that the
\* rubble loop handled is at or above the floor level FLOOR_Y + 0.5.
C18_RubbleAboveFloor ==
    (lastOp.op = "tick" /\ lastOp.ret)
      => \A k \in 1..Len(voxels) :
            "rubble" \in branches[k] => voxels[k].y >= FloorLevel

\* A frame just put a falling rubble voxel back on the floor and bounced it.
C18_Witness ==
    /\ lastOp.op = "tick"
    /\ lastOp.ret
    /\ \E k \in 1..Len(voxels) :
          /\ "rubble" \in branches[k]
          /\ voxels[k].y = FloorLevel
          /\ voxels[k].vy > 0

\* The sum of coordinate c ("x", "y" or "z") over the voxels with indices in S.
RECURSIVE SumOf(_, _)
SumOf(S, c) ==
    IF S = {} THEN 0
    ELSE LET i == CHOOSE j \in S : TRUE
         IN voxels[i + 1][c] + SumOf(S \ {i}, c)

\* a / n as a number with two decimals.
Quot(a, n) == IF a >= 0 THEN a \div n ELSE -((-a) \div n)

\* The screen position of the average position of the voxels in S.
ScreenOfAverage(S) ==
    LET n == Cardinality(S)
        vec == Project([x |-> Quot(SumOf(S, "x"), n), y |-> Quot(SumOf(S, "y"), n),
                        z |-> Quot(SumOf(S, "z"), n)])
    IN [x |-> (Quot(vec.x, 2) + 50) * clientWidth,
        y |-> (50 - Quot(vec.y, 2)) * clientHeight,
        visible |-> vec.z < Scale /\ Abs(vec.x) < 110 /\ Abs(vec.y) < 110]

\* C19: getStepCentroids(N) returns exactly N entries, one per tag 0..N-1: the
\* placeholder with visible = false for a tag that no voxel carries, and
\* otherwise the screen position of the average current position of exactly
\* the voxels with that tag, so voxels tagged -1 or N and above enter no entry.
C19_CentroidsPerStep ==
    lastOp.op = "centroids"
      => /\ Len(stepCentroids) = lastOp.arg
         /\ \A i \in 0..(lastOp.arg - 1) :
               stepCentroids[i + 1] =
                  IF Tagged(i) = {} THEN [x |-> 0, y |-> 0, visible |-> FALSE]
                  ELSE ScreenOfAverage(Tagged(i))

\* The centroids of MaxSteps steps were asked of a dismantled store in motion
\* with a step-0 voxel, an untagged voxel and no step-1 voxel.
C19_Witness ==
    /\ lastOp.op = "centroids"
    /\ lastOp.arg = MaxSteps
    /\ state = DISMANTLING
    /\ Tagged(0) # {}
    /\ Tagged(-1) # {}
    /\ Tagged(1) = {}
    /\ \E i \in Tagged(0) : voxels[i + 1].y # voxels[i + 1].originalY
    /\ stepCentroids[1].visible
    /\ ~stepCentroids[2].visible

\* C20: getStepCentroids changes nothing of the engine: the mode, both sets,
\* the rebuild targets, the pending callbacks and every field of every voxel
\* are the same after the call, whenever it is called.
C20_CentroidsReadOnly ==
    [][ lastOp'.op = "centroids"
          => UNCHANGED <<voxels, rebuildTargets, activeRebuildIndices,
                         rejectingIndices, state, timers, appState, voxelCount>> ]_vars

\* The centroids were read after a frame, while a rejected voxel bounces and
\* its callback is pending.
C20_Witness ==
    /\ lastOp.op = "centroids"
    /\ lastOp.arg > 0
    /\ state = REJECTING
    /\ rejectingIndices # {}
    /\ timers # <<>>
    /\ nTicks > 0
    /\ \E k \in 1..Len(voxels) : voxels[k].y # voxels[k].originalY

\* C21: after every step the mode last notified to the App is the engine's
\* mode and the count last notified is the number of voxels; a step that
\* notifies ends on the mode it notified last, and a load notifies the count.
C21_NotificationsInSync ==
    /\ appState = state
    /\ voxelCount = Len(voxels)
    /\ lastOp.emits # <<>> => lastOp.emits[Len(lastOp.emits)] = state
    /\ lastOp.op = "load" => (lastOp.count = Len(voxels) /\ lastOp.emits = <<STABLE>>)
    /\ lastOp.op \in {"rebuildLayer", "rejectLayer"} => lastOp.emits # <<>>
    /\ (lastOp.op \in {"dismantle", "timer"} /\ lastOp.ret) => lastOp.emits # <<>>

\* The callback of a rejectLayer reverted the mode on a full store and the App
\* was told.
C21_Witness ==
    /\ lastOp.op = "timer"
    /\ lastOp.ret
    /\ lastOp.emits = <<INTERACTIVE_REBUILD>>
    /\ appState = INTERACTIVE_REBUILD
    /\ Len(voxels) = MaxVoxels
    /\ voxelCount = MaxVoxels

\* C22: a frame while the mode is Stable changes nothing: every field of every
\* voxel, both sets, the rebuild targets and the mode are as before.
C22_StableFrameIdle ==
    [][ (lastOp'.op = "tick" /\ state = STABLE)
          => UNCHANGED <<voxels, activeRebuildIndices, rejectingIndices,
                         rebuildTargets, state, appState, timers>> ]_vars

\* A frame came while a freshly loaded full store was Stable and ran no loop.
C22_Witness ==
    /\ lastOp.op = "tick"
    /\ ~lastOp.ret
    /\ state = STABLE
    /\ Len(voxels) = MaxVoxels
    /\ \A k \in 1..Len(voxels) : branches[k] = {}

\* C23: no dismantle, rebuildLayer, rejectLayer, frame or timer callback
\* changes the number of voxels nor any voxel's id, original position, step tag
\* or color: only a load replaces them.
C23_IdentityFrozen ==
    [][ lastOp'.op # "load"
          => /\ Len(voxels') = Len(voxels)
             /\ \A k \in 1..Len(voxels) :
                   /\ voxels'[k].id = voxels[k].id
                   /\ voxels'[k].originalX = voxels[k].originalX
                   /\ voxels'[k].originalY = voxels[k].originalY
                   /\ voxels'[k].originalZ = voxels[k].originalZ
                   /\ voxels'[k].stepIndex = voxels[k].stepIndex
                   /\ voxels'[k].color = voxels[k].color ]_vars

\* A frame moved a rejected voxel and a rubble voxel of a full store away from
\* their original positions.
C23_Witness ==
    /\ lastOp.op = "tick"
    /\ Len(voxels) = MaxVoxels
    /\ \E k \in 1..Len(voxels) : "bounce" \in branches[k] /\ voxels[k].y # voxels[k].originalY
    /\ \E k \in 1..Len(voxels) : "rubble" \in branches[k] /\ voxels[k].y # voxels[k].originalY

\* C25: the engine never holds a voxel whose step tag is not an integer of at
\* least -1: import turns a missing or malformed stepIndex into -1.
C25_TagsWellFormed ==
    \A k \in 1..Len(voxels) : voxels[k].stepIndex # NaN /\ voxels[k].stepIndex >= -1

\* C24: importing the text that getJsonData just produced loads a store with
\* as many voxels, in the same order, at the positions and with the step tags
\* the store had when it was exported.
C24_RoundTrip ==
    [][ ( /\ lastOp'.op = "load"
          /\ jsonData = getJsonData
          /\ lastOp'.arg = [ k \in 1..Len(jsonData) |-> ImportEntry(jsonData[k]) ] )
          => /\ Len(voxels') = Len(voxels)
             /\ \A k \in 1..Len(voxels) :
                   /\ voxels'[k].x = voxels[k].x
                   /\ voxels'[k].y = voxels[k].y
                   /\ voxels'[k].z = voxels[k].z
                   /\ voxels'[k].stepIndex = voxels[k].stepIndex ]_vars

\* C26: rebuildLayer for a tag that no voxel carries returns false, leaves the
\* mode as it was and notifies no mode change, whatever the mode.
C26_UnknownTagKeepsMode ==
    [][ (lastOp'.op = "rebuildLayer" /\ Tagged(lastOp'.arg) = {})
          => /\ lastOp'.ret = FALSE
             /\ state' = state
             /\ lastOp'.emits = <<>> ]_vars

\* C27: rejectLayer(T) called in Dismantling or InteractiveRebuild sets the
\* mode to Rejecting, adds exactly the voxels tagged T to the rejecting set and
\* gives each of them a strictly positive vertical velocity; the voxels with
\* other tags keep their velocities and their membership of both sets.
C27_RejectLayerEffect ==
    [][ (lastOp'.op = "rejectLayer" /\ state \in {DISMANTLING, INTERACTIVE_REBUILD})
          => /\ state' = REJECTING
             /\ rejectingIndices' = rejectingIndices \cup Tagged(lastOp'.arg)
             /\ activeRebuildIndices' = activeRebuildIndices
             /\ Len(voxels') = Len(voxels)
             /\ \A i \in Tagged(lastOp'.arg) : voxels'[i + 1].vy > 0
             /\ \A i \in (0..(Len(voxels) - 1)) \ Tagged(lastOp'.arg) :
                   /\ voxels'[i + 1] = voxels[i + 1]
                   /\ (i \in rejectingIndices') = (i \in rejectingIndices) ]_vars

\* rejectLayer hit one voxel of a dismantled full store whose other voxel,
\* differently tagged, is moving.
C27_Witness ==
    /\ lastOp.op = "rejectLayer"
    /\ state = REJECTING
    /\ rebuildTargets # <<>>
    /\ Len(voxels) = MaxVoxels
    /\ Cardinality(Tagged(lastOp.arg)) = 1
    /\ rejectingIndices = Tagged(lastOp.arg)
    /\ \E k \in 1..Len(voxels) :
          /\ (k - 1) \notin rejectingIndices
          /\ voxels[k].vy > 50

\* C28: the destination the flight loop uses for a voxel is that voxel's
\* original position, in every reachable state, also when no dismantle has
\* filled the rebuild targets since the load.
C28_TargetIsOriginal ==
    \A i \in 0..(Len(voxels) - 1) :
        /\ Target(i).x = voxels[i + 1].originalX
        /\ Target(i).y = voxels[i + 1].originalY
        /\ Target(i).z = voxels[i + 1].originalZ

\* The flight loop ran on a voxel of a full store that was never dismantled
\* since its load, so that no rebuild target exists.
C28_Witness ==
    /\ lastOp.op = "tick"
    /\ rebuildTargets = <<>>
    /\ Len(voxels) = MaxVoxels
    /\ \E k \in 1..Len(voxels) : "flight" \in branches[k]

\* C29: handleStepClick calls rebuildLayer(k) only when k is the current step
\* index, and then every step below k has been attempted and completed; a
\* click on another step that is not completed calls rejectLayer(k), returns
\* false and leaves the current step index and the completed set unchanged.
C29_BottomUpOrder ==
    [][ /\ lastOp'.op = "rebuildLayer"
          => /\ lastOp'.arg = currentStepIndex
             /\ \A j \in 0..(lastOp'.arg - 1) : j \in completedSteps
             /\ lastOp'.arg \notin completedSteps
             /\ completedSteps' = completedSteps \cup {lastOp'.arg}
             /\ currentStepIndex' = currentStepIndex + 1
             /\ lastClick' = [index |-> lastOp'.arg, ret |-> TRUE]
        /\ lastOp'.op = "rejectLayer"
          => /\ lastOp'.arg # currentStepIndex
             /\ lastOp'.arg \notin completedSteps
             /\ lastClick' = [index |-> lastOp'.arg, ret |-> FALSE]
             /\ UNCHANGED <<currentStepIndex, completedSteps>> ]_vars

\* After a dismantle the last step was clicked first and rejected; then the
\* steps were clicked bottom-up, the last one while the rejection's callback
\* was still pending.
C29_Witness ==
    /\ lastOp.op = "rebuildLayer"
    /\ lastOp.arg = MaxSteps - 1
    /\ lessonSteps = MaxSteps
    /\ completedSteps = 0..(MaxSteps - 1)
    /\ currentStepIndex = MaxSteps
    /\ rebuildTargets # <<>>
    /\ timers # <<>>
    /\ timers[1].stepIndex = MaxSteps - 1

\* C30: whenever handleStepClick adds step k to completedSteps, the
\* rebuildLayer(k) it called returned true: at least one voxel carries tag k.
C30_CompletedStepsExist ==
    [][ (lastOp'.op = "rebuildLayer" /\ completedSteps' # completedSteps)
          => /\ lastOp'.ret
             /\ Tagged(lastOp'.arg) # {}
             /\ completedSteps' \ completedSteps = {lastOp'.arg} ]_vars

\* The first step of a dismantled lesson of MaxSteps steps was clicked after
\* a frame had moved its voxels, and is now the only completed step.
C30_Witness ==
    /\ lastOp.op = "rebuildLayer"
    /\ lastOp.ret
    /\ lessonSteps = MaxSteps
    /\ completedSteps = {0}
    /\ nCalls >= 4
    /\ nTicks > 0
    /\ \A i \in Tagged(0) : voxels[i + 1].y # voxels[i + 1].originalY


\* C33: whenever the mode is not Rejecting the rejecting set is empty, so no
\* voxel stays in the rejecting set while the bounce loop is off, also after
\* rejectLayer(A) followed by rebuildLayer(B) before the callback fires.
C33_RejectingOnlyWhileRejecting ==
    state # REJECTING => rejectingIndices = {}


\* C34: whenever the mode is Stable both sets are empty and every voxel is at
\* its original position with zero rotation, zero velocity and zero angular
\* velocity; whenever the mode is Dismantling both sets are empty.
C34_StableAtRest ==
    /\ state = STABLE
         => /\ activeRebuildIndices = {}
            /\ rejectingIndices = {}
            /\ \A k \in 1..Len(voxels) :
                  /\ voxels[k].x = voxels[k].originalX
                  /\ voxels[k].y = voxels[k].originalY
                  /\ voxels[k].z = voxels[k].originalZ
                  /\ voxels[k].rx = 0 /\ voxels[k].ry = 0 /\ voxels[k].rz = 0
                  /\ voxels[k].vx = 0 /\ voxels[k].vy = 0 /\ voxels[k].vz = 0
                  /\ voxels[k].rvx = 0 /\ voxels[k].rvy = 0 /\ voxels[k].rvz = 0
    /\ state = DISMANTLING
         => /\ activeRebuildIndices = {}
            /\ rejectingIndices = {}

\* The callback of a rejectLayer fired on a full store in Stable, after a
\* frame had moved the earlier model and a load had replaced it.
C34_Witness ==
    /\ state = STABLE
    /\ lastOp.op = "timer"
    /\ lastOp.arg.loaded
    /\ nTicks >= 1
    /\ Len(voxels) = MaxVoxels


\* C35: a voxel that rebuildLayer put in the active-flight set stays in it
\* through every rejectLayer, frame, timer callback and dismantle; only a load
\* takes it out.
C35_ActiveMonotone ==
    [][ lastOp'.op # "load"
          => activeRebuildIndices \subseteq activeRebuildIndices' ]_vars

\* The callback of rejectLayer(T) reverted the mode while the voxels tagged T,
\* sent flying by an earlier rebuildLayer(T), are still in the active-flight set.
C35_Witness ==
    /\ lastOp.op = "timer"
    /\ lastOp.ret
    /\ Tagged(lastOp.arg.stepIndex) # {}
    /\ Tagged(lastOp.arg.stepIndex) \subseteq activeRebuildIndices
    /\ rejectingIndices = {}


\* C36: once a lesson is dismantled, after every step completedSteps is
\* {0, ..., currentStepIndex - 1} and currentStepIndex is at most the number of
\* lesson steps; rebuildLayer and rejectLayer are never called for a completed
\* step, and a click on a completed step changes nothing of the engine.
C36_GameStateConsistent ==
    [][ /\ (state' # STABLE /\ lessonSteps' > 0)
          => /\ completedSteps' = 0..(currentStepIndex' - 1)
             /\ currentStepIndex' <= lessonSteps'
        /\ lastOp'.op \in {"rebuildLayer", "rejectLayer"}
          => lastOp'.arg \notin completedSteps
        /\ lastOp'.op = "click"
          => /\ lastOp'.arg \in completedSteps
             /\ UNCHANGED <<voxels, rebuildTargets, activeRebuildIndices,
                            rejectingIndices, state, timers, appState,
                            currentStepIndex, completedSteps>> ]_vars

\* Every step of a dismantled lesson of MaxSteps steps was completed
\* bottom-up, and a completed step was clicked again.
C36_Witness ==
    /\ lastOp.op = "click"
    /\ state # STABLE
    /\ lessonSteps = MaxSteps
    /\ currentStepIndex = MaxSteps
    /\ completedSteps = 0..(MaxSteps - 1)
    /\ activeRebuildIndices = 0..(MaxSteps - 1)


\* C37: driven through the App's handlers, rejectLayer is never called for a
\* tag whose voxels are in the active-flight set, and no voxel is in the
\* active-flight set and in the rejecting set, also when several clicks are
\* handled by the handler of one render.
C37_NoRejectOfFlying ==
    [][ /\ lastOp'.op = "rejectLayer"
          => Tagged(lastOp'.arg) \cap activeRebuildIndices = {}
        /\ activeRebuildIndices' \cap rejectingIndices' = {} ]_vars

\* After the click that completed step 0, and before the App rendered again,
\* a click on step 1 was rejected while the voxels of step 0 fly.
C37_Witness ==
    /\ lastOp.op = "rejectLayer"
    /\ lastOp.arg = 1
    /\ currentStepIndex = 1
    /\ rendered.currentStepIndex = 0
    /\ completedSteps = {0}
    /\ Tagged(0) \subseteq activeRebuildIndices
    /\ rejectingIndices = Tagged(1)
    /\ rejectingIndices # {}


\* The voxel voxels[k] lies on the floor without vertical velocity.
Settled(k) == voxels[k].y = FloorLevel /\ voxels[k].vy = 0

\* C31: ScenarioVoxels voxels of step 0 loaded at y = 5 and dismantled all rest
\* at FLOOR_Y + 0.5 after ScenarioRestTicks frames, whatever the random
\* impulses; after rebuildLayer(0) and ScenarioFlightTicks more frames all are
\* at their original y = 5 with rotation (0, 0, 0).
C31_Scenario ==
    /\ (nCalls = 2 /\ nTicks = ScenarioRestTicks)
         => \A k \in 1..Len(voxels) : Settled(k)
    /\ (nCalls = 3 /\ nTicks = ScenarioRestTicks + ScenarioFlightTicks)
         => \A k \in 1..Len(voxels) :
               /\ voxels[k].y = 5 * Scale
               /\ voxels[k].y = voxels[k].originalY
               /\ voxels[k].rx = 0 /\ voxels[k].ry = 0 /\ voxels[k].rz = 0


\* C32: a voxel that stays rubble while the mode stays non-Stable comes to
\* rest: once a frame ends with it on the floor at FLOOR_Y + 0.5 with vertical
\* velocity 0, every later frame ends so, and by the end of a run of
\* ScenarioRestTicks + ScenarioFlightTicks frames every such voxel rests.
C32_RubbleSettles ==
    [][ /\ \A k \in 1..Len(voxels) :
              ( /\ lastOp'.op = "tick"
                /\ state # STABLE
                /\ (k - 1) \notin activeRebuildIndices
                /\ (k - 1) \notin rejectingIndices
                /\ Settled(k) )
                => (voxels'[k].y = FloorLevel /\ voxels'[k].vy = 0)
        /\ ( /\ state' = DISMANTLING
             /\ nTicks' = ScenarioRestTicks + ScenarioFlightTicks )
             => \A k \in 1..Len(voxels') :
                   voxels'[k].y = FloorLevel /\ voxels'[k].vy = 0 ]_vars

\* A frame ran rubble physics on voxels that rested already, after a voxel
\* with the larger upward pop had bounced off the floor and come to rest
\* later than one with the smaller pop.
C32_Witness ==
    /\ lastOp.op = "tick"
    /\ state = DISMANTLING
    /\ nTicks > ScenarioRestTicks
    /\ \A k \in 1..Len(voxels) : "rubble" \in branches[k] /\ Settled(k)
    /\ \E k \in 1..Len(voxels) : voxels[k].x # voxels[k].originalX
    /\ \E k \in 1..Len(voxels) : voxels[k].x = voxels[k].originalX

====
